---- MODULE Spec2Model ----
(***************************************************************************)
(* Model of process_collaboration_networks() of                            *)
(* src/silver/collaboration_networks.py: the four bronze record streams    *)
(* are folded into the per-repository contributor sets, the pair-wise      *)
(* collaboration edges are accumulated, and the edge list, the user and    *)
(* repository profiles, the cross-repository hubs and the network summary  *)
(* are derived and published.                                              *)
(*                                                                         *)
(* Logins are the integers 1..NumLogins; the integer order stands for the  *)
(* ascending string order Python's sorted() applies to the login strings.  *)
(* The records of a stream are drawn when the loop reads them.  Under      *)
(* SpecTraced the history variable rec keeps the record read last, so that *)
(* the effect of one record can be stated; Spec leaves it out.             *)
(***************************************************************************)
EXTENDS Integers, Sequences, FiniteSets, TLC

\* ---------------------------------------------------------------- bounds
NumLogins == 3
MaxRecords == 3
MaxFiles == 2

Logins == 1..NumLogins
\* The repository names that occur in the records.
Repos == {"R1", "R2"}

\* ------------------------------------------------------- record shapes
\* A JSON field that may hold an actor object: the key is absent, the value
\* is null, the value is an object without 'login', or an object with one.
Absent == [shape |-> "absent", login |-> 0]
Null == [shape |-> "null", login |-> 0]
NoLogin == [shape |-> "object", login |-> 0]
WithLogin(l) == [shape |-> "object", login |-> l]
ActorField == {Absent, Null, NoLogin} \cup {WithLogin(l) : l \in Logins}

\* The 'repo_name' field: key absent, or a repository name.
RepoAbsent == "<absent>"
RepoField == {RepoAbsent} \cup Repos

Kinds == <<"issue", "pr", "commit", "issue_event">>

\* Records of each stream.  'actor' is the field the loop of that kind
\* reads ('user' for issues and pull requests, 'author' for commits,
\* 'actor' for issue events); only issues carry 'assignee'.
RecordsOf(kind, meta) ==
    [kind : {kind}, repo_name : RepoField, actor : ActorField,
     assignee : IF kind = "issue" THEN ActorField ELSE {Absent},
     metadata : {meta}]

NoRecord == [kind |-> "none", repo_name |-> RepoAbsent, actor |-> Absent,
             assignee |-> Absent, metadata |-> FALSE]

\* ------------------------------------------------------------- helpers
\* dict.get(key, default): the default only replaces an absent key.
GetRepoName(r) == IF r.repo_name = RepoAbsent THEN "unknown" ELSE r.repo_name

\* x.get('login') of an actor object, 0 for None.
GetLogin(a) == a.login

\* Truthiness of a field value used as the left operand of `and`: the {}
\* default of an absent key and None are falsy, an actor object is truthy.
Truthy(a) == a.shape = "object"

\* issue.get('user', {}).get('login') raises AttributeError on null.
Raises(r) == r.kind \in {"issue", "pr"} /\ r.actor.shape = "null"

\* The logins one record adds, in the order the loop body adds them.
LoginsOf(r) ==
    LET u == IF r.kind \in {"issue", "pr"}
             THEN (IF GetLogin(r.actor) # 0 THEN <<GetLogin(r.actor)>> ELSE <<>>)
             ELSE (IF Truthy(r.actor) /\ GetLogin(r.actor) # 0
                   THEN <<GetLogin(r.actor)>> ELSE <<>>)
        a == IF r.kind = "issue" /\ Truthy(r.assignee) /\ GetLogin(r.assignee) # 0
             THEN <<GetLogin(r.assignee)>> ELSE <<>>
    IN u \o a

\* Position of the entry of repo in the insertion-ordered dict d, 0 if none.
RepoIndex(d, repo) ==
    IF \E i \in 1..Len(d) : d[i].repo = repo
    THEN CHOOSE i \in 1..Len(d) : d[i].repo = repo
    ELSE 0

\* Variant of AddContributor: the login replaces the set of the repository
\* (the record read last wins).
AddContributorReplacing(d, repo, login) ==
    LET i == RepoIndex(d, repo)
    IN IF i = 0
       THEN Append(d, [repo |-> repo, contributors |-> {login}])
       ELSE [d EXCEPT ![i].contributors = {login}]

\* repo_collaborators[repo].add(login) on a defaultdict(set).
AddContributor(d, repo, login) ==
    LET i == RepoIndex(d, repo)
    IN IF i = 0
       THEN Append(d, [repo |-> repo, contributors |-> {login}])
       ELSE [d EXCEPT ![i].contributors = @ \cup {login}]

RECURSIVE AddAll(_, _, _)
AddAll(d, repo, ls) ==
    IF ls = <<>> THEN d
    ELSE AddAll(AddContributor(d, repo, Head(ls)), repo, Tail(ls))

\* The contributor set of repo in d (empty when repo is no key).
ContributorsOf(d, repo) ==
    LET i == RepoIndex(d, repo) IN IF i = 0 THEN {} ELSE d[i].contributors

\* list(contributors): the elements of a set in some iteration order.
ListsOf(S) ==
    {p \in [1..Cardinality(S) -> S] : \A i, j \in 1..Cardinality(S) : p[i] = p[j] => i = j}

\* Variant of PairsOf: the inner loop stops after the next element.
PairsOfAdjacent(l) ==
    IF Len(l) <= 1 THEN <<>>
    ELSE [j \in 1..(Len(l) - 1) |-> <<l[j], l[j + 1]>>]

\* The (user1, user2) pairs the nested loops of lines 60-61 visit, in order.
RECURSIVE PairsOf(_)
PairsOf(l) ==
    IF Len(l) <= 1 THEN <<>>
    ELSE [j \in 1..(Len(l) - 1) |-> <<l[1], l[j + 1]>>] \o PairsOf(Tail(l))

\* Variant of EdgeKey: the key is not sorted.
EdgeKeyUnsorted(user1, user2) == <<user1, user2>>

\* tuple(sorted([user1, user2]))
EdgeKey(user1, user2) ==
    IF user1 <= user2 THEN <<user1, user2>> ELSE <<user2, user1>>

KeyIndex(d, key) ==
    IF \E i \in 1..Len(d) : d[i].key = key
    THEN CHOOSE i \in 1..Len(d) : d[i].key = key
    ELSE 0

\* Variant of AppendRepo: a key that exists keeps its first repository only.
AppendRepoFirstOnly(d, key, repo) ==
    LET i == KeyIndex(d, key)
    IN IF i = 0
       THEN Append(d, [key |-> key, repos |-> <<repo>>])
       ELSE d

\* collaboration_repos[edge_key].append(repo) on a defaultdict(list).
AppendRepo(d, key, repo) ==
    LET i == KeyIndex(d, key)
    IN IF i = 0
       THEN Append(d, [key |-> key, repos |-> <<repo>>])
       ELSE [d EXCEPT ![i].repos = Append(@, repo)]

UserIndex(d, user) ==
    IF \E i \in 1..Len(d) : d[i].user = user
    THEN CHOOSE i \in 1..Len(d) : d[i].user = user
    ELSE 0

\* user_collaborations[user].add(other) on a defaultdict(set).
AddCollaborator(d, user, other) ==
    LET i == UserIndex(d, user)
    IN IF i = 0
       THEN Append(d, [user |-> user, collaborators |-> {other}])
       ELSE [d EXCEPT ![i].collaborators = @ \cup {other}]

\* Variant of LinkPair: line 68 is missing.
LinkPairOneWay(g, user1, user2, repo) ==
    IF user1 # user2
    THEN [cr |-> AppendRepo(g.cr, EdgeKey(user1, user2), repo),
          uc |-> AddCollaborator(g.uc, user1, user2)]
    ELSE g

\* Lines 62-68 for one (user1, user2): g is the pair of the two dicts.
LinkPair(g, user1, user2, repo) ==
    IF user1 # user2
    THEN [cr |-> AppendRepo(g.cr, EdgeKey(user1, user2), repo),
          uc |-> AddCollaborator(AddCollaborator(g.uc, user1, user2), user2, user1)]
    ELSE g

RECURSIVE LinkAll(_, _, _)
LinkAll(g, pairs, repo) ==
    IF pairs = <<>> THEN g
    ELSE LinkAll(LinkPair(g, Head(pairs)[1], Head(pairs)[2], repo), Tail(pairs), repo)

\* The collaborator set of user in d (empty when user is no key).
CollaboratorsOf(d, user) ==
    LET i == UserIndex(d, user) IN IF i = 0 THEN {} ELSE d[i].collaborators

\* Variant of InsertDesc: e goes in front of the elements of equal key.
RECURSIVE InsertDescStrict(_, _)
InsertDescStrict(sorted, e) ==
    IF sorted = <<>> THEN <<e>>
    ELSE IF Head(sorted).k > e.k
         THEN <<Head(sorted)>> \o InsertDescStrict(Tail(sorted), e)
         ELSE <<e>> \o sorted

\* list.sort(key=..., reverse=True): stable, descending by key.  The
\* elements are keyed first; e goes behind every element whose key is at
\* least e's.
RECURSIVE InsertDesc(_, _)
InsertDesc(sorted, e) ==
    IF sorted = <<>> THEN <<e>>
    ELSE IF Head(sorted).k >= e.k
         THEN <<Head(sorted)>> \o InsertDesc(Tail(sorted), e)
         ELSE <<e>> \o sorted

RECURSIVE SortDescFrom(_, _)
SortDescFrom(sorted, rest) ==
    IF rest = <<>> THEN sorted
    ELSE SortDescFrom(InsertDesc(sorted, Head(rest)), Tail(rest))

\* keys[i] is the value of the key function on l[i].
SortDesc(l, keys) ==
    LET keyed == [i \in 1..Len(l) |-> [k |-> keys[i], v |-> l[i]]]
        out == SortDescFrom(<<>>, keyed)
    IN [i \in 1..Len(l) |-> out[i].v]

\* Variant of ToEdge: every edge weighs 1.
ToEdgeUnitWeight(e) ==
    [source |-> e.key[1], target |-> e.key[2], weight |-> 1, repos |-> e.repos]

\* Lines 72-79: one edge per key of collaboration_repos, in key order.
ToEdge(e) ==
    [source |-> e.key[1], target |-> e.key[2], weight |-> Len(e.repos),
     repos |-> e.repos]

EdgeWeight(e) == e.weight

\* repo in e['repos']
InList(x, l) == \E i \in 1..Len(l) : l[i] = x

\* Variant of ReposContributed: repositories of a sole contributor are left out.
ReposContributedShared(d, user) ==
    LET Pick(i) == user \in d[i].contributors /\ Cardinality(d[i].contributors) > 1
        F[i \in 0..Len(d)] ==
            IF i = 0 THEN <<>>
            ELSE IF Pick(i) THEN Append(F[i - 1], d[i].repo) ELSE F[i - 1]
    IN F[Len(d)]

\* [repo for repo, contributors in repo_collaborators.items() if user in contributors]
ReposContributed(d, user) ==
    LET Pick(i) == user \in d[i].contributors
        F[i \in 0..Len(d)] ==
            IF i = 0 THEN <<>>
            ELSE IF Pick(i) THEN Append(F[i - 1], d[i].repo) ELSE F[i - 1]
    IN F[Len(d)]

\* The quotient a / b of lines 126, 165 and 166, kept as a fraction; the
\* guard of the conditional expression yields the integer 0 instead.
Fraction(a, b) == [num |-> a, den |-> b]
Zero == [num |-> 0, den |-> 1]

\* Lines 96-101: the profile of one entry of user_collaborations.
UserProfile(d, u) ==
    [user |-> u.user,
     collaborator_count |-> Cardinality(u.collaborators),
     collaborators |-> u.collaborators,
     repositories_contributed |-> Len(ReposContributed(d, u.user))]

CollaboratorCount(m) == m.collaborator_count

\* Variant of ActualCollaborations: the edges are not filtered by repo.
ActualCollaborationsAll(edges, repo) == Len(edges)

\* len([e for e in collaboration_edges if repo in e['repos']])
ActualCollaborations(edges, repo) ==
    Cardinality({i \in 1..Len(edges) : InList(repo, edges[i].repos)})

\* len(l) * (len(l) - 1) // 2
PotentialCollaborations(n) == (n * (n - 1)) \div 2

\* Lines 114-127: the profile of one entry of repo_collaborators.
RepoProfile(edges, r) ==
    LET n == Cardinality(r.contributors)
        potential == PotentialCollaborations(n)
        actual == ActualCollaborations(edges, r.repo)
    IN [repo |-> r.repo,
        contributor_count |-> n,
        contributors |-> r.contributors,
        potential_collaborations |-> potential,
        actual_collaborations |-> actual,
        collaboration_density |->
            IF potential > 0 THEN Fraction(actual, potential) ELSE Zero]

ContributorCount(a) == a.contributor_count

\* Variant of HubEntry: one repository is enough.
HubEntryAtLeastOne(d, uc, user) ==
    LET repos_contributed == ReposContributed(d, user)
    IN IF Len(repos_contributed) >= 1
       THEN <<[user |-> user,
               repositories |-> repos_contributed,
               repo_count |-> Len(repos_contributed),
               total_collaborators |-> Cardinality(CollaboratorsOf(uc, user))]>>
       ELSE <<>>

\* Lines 139-147: the hub entry of one user, <<>> when the user has at most
\* one repository.
HubEntry(d, uc, user) ==
    LET repos_contributed == ReposContributed(d, user)
    IN IF Len(repos_contributed) > 1
       THEN <<[user |-> user,
               repositories |-> repos_contributed,
               repo_count |-> Len(repos_contributed),
               total_collaborators |-> Cardinality(CollaboratorsOf(uc, user))]>>
       ELSE <<>>

\* cross_repo_contributors: the entries of the keys of user_collaborations.
RECURSIVE HubEntries(_, _, _)
HubEntries(d, uc, i) ==
    IF i = 0 THEN <<>>
    ELSE HubEntries(d, uc, i - 1) \o HubEntry(d, uc, uc[i].user)

RepoCount(h) == h.repo_count

RECURSIVE SumOver(_, _)
SumOver(l, i) == IF i = 0 THEN 0 ELSE SumOver(l, i - 1) + l[i]

\* What a list element names, read off its fields alone: the logins of
\* its reporter / author / actor and assignee, and the (repository, login)
\* pairs they form with the element's repository, "unknown" standing for
\* a missing repository identifier.
HasLogin(a) == a.shape = "object" /\ a.login # 0
NamedLogins(r) ==
    {a.login : a \in {x \in {r.actor, r.assignee} : HasLogin(x)}}
NamedPairs(r) ==
    {<<IF r.repo_name = RepoAbsent THEN "unknown" ELSE r.repo_name, l>> :
        l \in NamedLogins(r)}

VARIABLES
    pc,                  \* position in process_collaboration_networks
    stream,              \* index of the stream being folded (1..4)
    head,                \* no record of that stream has been read yet
    rec,                 \* history: the record read last (SpecTraced)
    seen,                \* history: the pairs named by the elements read
    named,               \* history: the pairs named by the records read
                         \* that are no metadata entry (SpecTraced)
    nread,               \* number of records read from all four streams
    repo_collaborators,  \* insertion-ordered dict repo -> set of logins
    ri,                  \* number of repositories the edge loop has visited
    collaboration_repos, \* insertion-ordered dict edge key -> list of repos
    user_collaborations, \* insertion-ordered dict user -> set of logins
    collaboration_edges, \* the edge list, published once sorted
    user_metrics,        \* the user profile list
    repo_analysis,       \* the repository profile list
    cross_repo_list,     \* the hub list
    network_stats,       \* the network summary, <<>> until computed
    generated_files,     \* the artifacts saved so far
    mpc,                 \* position in main() of silver_process.py
    member_files,        \* the list process_member_analytics returned
    contrib_files,       \* the list process_contribution_metrics returned
    collab_files,        \* the list process_collaboration_networks returned
    temporal_files,      \* the list process_temporal_analysis returned
    registry,            \* the lists handed to update_data_registry
    exit_status,         \* <<exit status>> of the process, <<>> while it runs
    calls,               \* history: the processors called, in call order
    returned,            \* history: the processors that returned
    failed               \* history: the call that raised, "none" if none

vars == <<pc, stream, head, rec, seen, named, nread, repo_collaborators, ri,
          collaboration_repos, user_collaborations, collaboration_edges,
          user_metrics, repo_analysis, cross_repo_list, network_stats,
          generated_files, mpc, member_files, contrib_files, collab_files,
          temporal_files, registry, exit_status, calls, returned, failed>>

input == <<stream, head, rec, seen, named, nread, repo_collaborators>>
graph == <<ri, collaboration_repos, user_collaborations, collaboration_edges>>
metrics == <<user_metrics, repo_analysis, cross_repo_list, network_stats,
             generated_files>>
results == <<member_files, contrib_files, collab_files, temporal_files>>
orchestrator == <<mpc, results, registry, exit_status, calls, returned, failed>>
processor == <<pc, input, graph, metrics>>

Init ==
    /\ pc = "skip_metadata"
    /\ stream = 1
    /\ head = TRUE
    /\ rec = NoRecord
    /\ seen = {}
    /\ named = {}
    /\ nread = 0
    /\ repo_collaborators = <<>>
    /\ ri = 0
    /\ collaboration_repos = <<>>
    /\ user_collaborations = <<>>
    /\ collaboration_edges = <<>>
    /\ user_metrics = <<>>
    /\ repo_analysis = <<>>
    /\ cross_repo_list = <<>>
    /\ network_stats = <<>>
    /\ generated_files = <<>>
    /\ mpc = "import"
    /\ member_files = <<>>
    /\ contrib_files = <<>>
    /\ collab_files = <<>>
    /\ temporal_files = <<>>
    /\ registry = <<>>
    /\ exit_status = <<>>
    /\ calls = <<>>
    /\ returned = <<>>
    /\ failed = "none"

\* Lines 20-23: the loop rebinds its own variable data_list to the tail;
\* issues_data, prs_data, commits_data and issue_events_data keep their
\* first element.
SkipMetadata ==
    /\ pc = "skip_metadata"
    /\ UNCHANGED orchestrator
    /\ pc' = "collect"
    /\ UNCHANGED <<input, graph, metrics>>

\* One iteration of one of the four collecting loops (lines 29-49).
\* Only the first element of a list is drawn with the '_metadata' key.
\* traced: the record is kept in rec.
Collect(r, traced) ==
    /\ pc = "collect"
    /\ UNCHANGED orchestrator
    /\ nread < MaxRecords
    /\ r.kind = Kinds[stream]
    /\ r.metadata => head
    /\ rec' = IF traced THEN r ELSE NoRecord
    /\ seen' = seen \cup NamedPairs(r)
    /\ named' = IF traced /\ ~r.metadata THEN named \cup NamedPairs(r)
                ELSE named
    /\ head' = FALSE
    /\ nread' = nread + 1
    /\ IF Raises(r)
       THEN /\ pc' = "raised"
            /\ UNCHANGED <<stream, repo_collaborators>>
       ELSE /\ repo_collaborators' =
                   AddAll(repo_collaborators, GetRepoName(r), LoginsOf(r))
            /\ UNCHANGED <<pc, stream>>
    /\ UNCHANGED <<graph, metrics>>

Records(kind) == RecordsOf(kind, TRUE) \cup RecordsOf(kind, FALSE)

CollectIssue == \E r \in Records("issue") : Collect(r, FALSE)
CollectPR == \E r \in Records("pr") : Collect(r, FALSE)
CollectCommit == \E r \in Records("commit") : Collect(r, FALSE)
CollectEvent == \E r \in Records("issue_event") : Collect(r, FALSE)

TracedIssue == \E r \in Records("issue") : Collect(r, TRUE)
TracedPR == \E r \in Records("pr") : Collect(r, TRUE)
TracedCommit == \E r \in Records("commit") : Collect(r, TRUE)
TracedEvent == \E r \in Records("issue_event") : Collect(r, TRUE)

\* The list of the current loop is exhausted.
EndOfStream ==
    /\ pc = "collect"
    /\ UNCHANGED orchestrator
    /\ head' = TRUE
    /\ rec' = NoRecord
    /\ IF stream < 4
       THEN stream' = stream + 1 /\ pc' = pc
       ELSE stream' = stream /\ pc' = "edges"
    /\ UNCHANGED <<seen, named, nread, repo_collaborators, graph, metrics>>

\* One iteration of the loop over repo_collaborators.items() (lines 56-68):
\* all pairs of one repository, its set listed in an arbitrary order.
LinkRepo ==
    /\ pc = "edges"
    /\ UNCHANGED orchestrator
    /\ ri < Len(repo_collaborators)
    /\ \E contributors_list \in ListsOf(repo_collaborators[ri + 1].contributors) :
          LET g == LinkAll([cr |-> collaboration_repos, uc |-> user_collaborations],
                           PairsOf(contributors_list),
                           repo_collaborators[ri + 1].repo)
          IN /\ collaboration_repos' = g.cr
             /\ user_collaborations' = g.uc
    /\ ri' = ri + 1
    /\ UNCHANGED <<pc, input, collaboration_edges, metrics>>

\* Lines 70-91: the edges are built, sorted by weight and saved.
PublishEdges ==
    /\ pc = "edges"
    /\ UNCHANGED orchestrator
    /\ ri = Len(repo_collaborators)
    /\ LET edges == [i \in 1..Len(collaboration_repos) |-> ToEdge(collaboration_repos[i])]
       IN collaboration_edges' =
              SortDesc(edges, [i \in 1..Len(edges) |-> EdgeWeight(edges[i])])
    /\ generated_files' = Append(generated_files, "collaboration_edges.json")
    /\ pc' = "metrics"
    /\ UNCHANGED <<input, ri, collaboration_repos, user_collaborations,
                   user_metrics, repo_analysis, cross_repo_list, network_stats>>

\* Lines 94-103: one profile per key of user_collaborations, sorted by
\* collaborator count.
UserMetricsOf(d, uc) ==
    LET profiles == [i \in 1..Len(uc) |-> UserProfile(d, uc[i])]
    IN SortDesc(profiles, [i \in 1..Len(profiles) |-> CollaboratorCount(profiles[i])])

\* Variant of RepoAnalysisOf: repositories without a pair get no profile.
RepoAnalysisOfPaired(d, edges) ==
    LET profiles == SelectSeq([i \in 1..Len(d) |-> RepoProfile(edges, d[i])],
                              LAMBDA a : a.potential_collaborations > 0)
    IN SortDesc(profiles, [i \in 1..Len(profiles) |-> ContributorCount(profiles[i])])

\* Lines 112-129: one profile per key of repo_collaborators, sorted by
\* contributor count.
RepoAnalysisOf(d, edges) ==
    LET profiles == [i \in 1..Len(d) |-> RepoProfile(edges, d[i])]
    IN SortDesc(profiles, [i \in 1..Len(profiles) |-> ContributorCount(profiles[i])])

\* Variant of CrossRepoListOf: the hubs stay in the order of the keys.
CrossRepoListOfUnsorted(d, uc) == HubEntries(d, uc, Len(uc))

\* Lines 138-151: the hubs among the keys of user_collaborations, sorted by
\* repository count.
CrossRepoListOf(d, uc) ==
    LET cross_repo_contributors == HubEntries(d, uc, Len(uc))
    IN SortDesc(cross_repo_contributors,
                [i \in 1..Len(cross_repo_contributors) |->
                    RepoCount(cross_repo_contributors[i])])

\* Variant of NetworkStatsOf: the two averages are divided without the
\* guard on an empty dict.
NetworkStatsOfUnguarded(d, uc, edges, hubs) ==
    LET users == Len(uc)
        repos == Len(d)
    IN [total_users |-> users,
        total_collaborations |-> Len(edges),
        total_repositories |-> repos,
        cross_repo_contributors |-> Len(hubs),
        avg_collaborators_per_user |->
            Fraction(SumOver([i \in 1..users |-> Cardinality(uc[i].collaborators)],
                             users), users),
        avg_contributors_per_repo |->
            Fraction(SumOver([i \in 1..repos |-> Cardinality(d[i].contributors)],
                             repos), repos)]

\* Lines 160-167: the network summary.
NetworkStatsOf(d, uc, edges, hubs) ==
    LET users == Len(uc)
        repos == Len(d)
    IN [total_users |-> users,
        total_collaborations |-> Len(edges),
        total_repositories |-> repos,
        cross_repo_contributors |-> Len(hubs),
        avg_collaborators_per_user |->
            IF users > 0
            THEN Fraction(SumOver([i \in 1..users |-> Cardinality(uc[i].collaborators)],
                                  users), users)
            ELSE Zero,
        avg_contributors_per_repo |->
            IF repos > 0
            THEN Fraction(SumOver([i \in 1..repos |-> Cardinality(d[i].contributors)],
                                  repos), repos)
            ELSE Zero]

\* Lines 93-176: the user profiles, the repository profiles, the hubs (saved
\* only when there is one) and the network summary are computed and saved.
PublishMetrics ==
    /\ pc = "metrics"
    /\ UNCHANGED orchestrator
    /\ user_metrics' = UserMetricsOf(repo_collaborators, user_collaborations)
    /\ repo_analysis' = RepoAnalysisOf(repo_collaborators, collaboration_edges)
    /\ cross_repo_list' = CrossRepoListOf(repo_collaborators, user_collaborations)
    /\ network_stats' =
           <<NetworkStatsOf(repo_collaborators, user_collaborations,
                            collaboration_edges, cross_repo_list')>>
    /\ generated_files' =
           generated_files
           \o <<"user_collaboration_metrics.json",
                "repository_collaboration_analysis.json">>
           \o (IF cross_repo_list' # <<>> THEN <<"cross_repository_hubs.json">> ELSE <<>>)
           \o <<"network_statistics.json">>
    /\ pc' = "done"
    /\ UNCHANGED <<input, graph>>

Next ==
    \/ SkipMetadata
    \/ CollectIssue
    \/ CollectPR
    \/ CollectCommit
    \/ CollectEvent
    \/ EndOfStream
    \/ LinkRepo
    \/ PublishEdges
    \/ PublishMetrics

Spec == Init /\ [][Next]_vars

\* The same program with the record read last kept in rec.
NextTraced ==
    \/ SkipMetadata
    \/ TracedIssue
    \/ TracedPR
    \/ TracedCommit
    \/ TracedEvent
    \/ EndOfStream
    \/ LinkRepo
    \/ PublishEdges
    \/ PublishMetrics

SpecTraced == Init /\ [][NextTraced]_vars

\* ------------------------------------------------ silver_process.py: main
\* The processors in the order of lines 35-44.
Processors == <<"member_analytics", "contribution_metrics",
                "collaboration_networks", "temporal_analysis">>

\* The k-th file a processor saves.
File(by, k) == [by |-> by, k |-> k]
FileList(by, ks) == [i \in 1..Len(ks) |-> File(by, ks[i])]

\* member_analytics.py: no list without member data (line 66), else
\* members_analytics.json and member_status_distribution.json (lines 108,
\* 120) and, with a maturity score, maturity_bands.json (line 135).
MemberResults ==
    {<<>>, FileList("member_analytics", <<1, 2>>),
     FileList("member_analytics", <<1, 2, 3>>)}

\* collaboration_networks.py, line 176: the edges, the user profiles, the
\* repository profiles, the hubs if there is one, the network summary.
CollabResults ==
    {FileList("collaboration_networks", <<1, 2, 3, 5>>),
     FileList("collaboration_networks", <<1, 2, 3, 4, 5>>)}

\* A processor whose module is not at hand returns some list of files.
ListsUpTo(by) == {FileList(by, [i \in 1..n |-> i]) : n \in 0..MaxFiles}

\* Lines 55-56: an exception raised by the call named what is caught.
Caught(what) ==
    /\ mpc' = "handler"
    /\ failed' = what

\* Lines 28-31: the four imports.
ImportProcessors ==
    /\ mpc = "import"
    /\ \/ mpc' = "member_analytics" /\ UNCHANGED failed
       \/ Caught("import")
    /\ UNCHANGED <<results, registry, exit_status, calls, returned, processor>>

\* Line 35.
RunMemberAnalytics ==
    /\ mpc = "member_analytics"
    /\ calls' = Append(calls, "member_analytics")
    /\ \/ /\ member_files' \in MemberResults
          /\ returned' = Append(returned, "member_analytics")
          /\ mpc' = "contribution_metrics"
          /\ UNCHANGED failed
       \/ /\ Caught("member_analytics")
          /\ UNCHANGED <<member_files, returned>>
    /\ UNCHANGED <<contrib_files, collab_files, temporal_files, registry,
                   exit_status, processor>>

\* Line 38.
RunContributionMetrics ==
    /\ mpc = "contribution_metrics"
    /\ calls' = Append(calls, "contribution_metrics")
    /\ \/ /\ contrib_files' \in ListsUpTo("contribution_metrics")
          /\ returned' = Append(returned, "contribution_metrics")
          /\ mpc' = "collaboration_networks"
          /\ UNCHANGED failed
       \/ /\ Caught("contribution_metrics")
          /\ UNCHANGED <<contrib_files, returned>>
    /\ UNCHANGED <<member_files, collab_files, temporal_files, registry,
                   exit_status, processor>>

\* Variant of RunCollaborationNetworks: a fault of the processor is
\* swallowed and the next step runs on an empty list.
RunCollaborationNetworksLenient ==
    /\ mpc = "collaboration_networks"
    /\ calls' = Append(calls, "collaboration_networks")
    /\ \/ /\ collab_files' \in CollabResults
          /\ returned' = Append(returned, "collaboration_networks")
          /\ mpc' = "temporal_analysis"
          /\ UNCHANGED failed
       \/ /\ mpc' = "temporal_analysis"
          /\ failed' = "collaboration_networks"
          /\ UNCHANGED <<collab_files, returned>>
    /\ UNCHANGED <<member_files, contrib_files, temporal_files, registry,
                   exit_status, processor>>

\* Line 41: the processor returns its list of files or raises (the
\* AttributeError of lines 31 and 38 of collaboration_networks.py).
RunCollaborationNetworks ==
    /\ mpc = "collaboration_networks"
    /\ calls' = Append(calls, "collaboration_networks")
    /\ \/ /\ collab_files' \in CollabResults
          /\ returned' = Append(returned, "collaboration_networks")
          /\ mpc' = "temporal_analysis"
          /\ UNCHANGED failed
       \/ /\ Caught("collaboration_networks")
          /\ UNCHANGED <<collab_files, returned>>
    /\ UNCHANGED <<member_files, contrib_files, temporal_files, registry,
                   exit_status, processor>>

\* Line 44.
RunTemporalAnalysis ==
    /\ mpc = "temporal_analysis"
    /\ calls' = Append(calls, "temporal_analysis")
    /\ \/ /\ temporal_files' \in ListsUpTo("temporal_analysis")
          /\ returned' = Append(returned, "temporal_analysis")
          /\ mpc' = "update_registry"
          /\ UNCHANGED failed
       \/ /\ Caught("temporal_analysis")
          /\ UNCHANGED <<temporal_files, returned>>
    /\ UNCHANGED <<member_files, contrib_files, collab_files, registry,
                   exit_status, processor>>

\* Lines 47-48: the four lists are concatenated and handed to
\* update_data_registry, which returns or raises, before or after it
\* recorded the list.
UpdateRegistry ==
    /\ mpc = "update_registry"
    /\ LET all_files == member_files \o contrib_files \o collab_files
                            \o temporal_files
       IN \/ /\ registry' = Append(registry, all_files)
             /\ mpc' = "report"
             /\ UNCHANGED failed
          \/ /\ registry' \in {registry, Append(registry, all_files)}
             /\ Caught("update_data_registry")
    /\ UNCHANGED <<results, exit_status, calls, returned, processor>>

\* Lines 50-53: the report is printed and main returns.
Report ==
    /\ mpc = "report"
    /\ mpc' = "returned"
    /\ exit_status' = <<0>>
    /\ UNCHANGED <<results, registry, calls, returned, failed, processor>>

\* Lines 56-57: the handler prints the error and calls sys.exit(1).
ExitOnError ==
    /\ mpc = "handler"
    /\ mpc' = "exited"
    /\ exit_status' = <<1>>
    /\ UNCHANGED <<results, registry, calls, returned, failed, processor>>

NextMain ==
    \/ ImportProcessors
    \/ RunMemberAnalytics
    \/ RunContributionMetrics
    \/ RunCollaborationNetworks
    \/ RunTemporalAnalysis
    \/ UpdateRegistry
    \/ Report
    \/ ExitOnError

\* main() runs to its end: a call that is reached returns or raises, and
\* the statement after it is executed.
SpecMain == Init /\ [][NextMain]_vars /\ WF_vars(NextMain)

\* ------------------------------------------------------------ properties
Published(file) == InList(file, generated_files)
EdgesPublished == Published("collaboration_edges.json")
UsersPublished == Published("user_collaboration_metrics.json")
ReposPublished == Published("repository_collaboration_analysis.json")
HubsDecided == pc = "done"

\* The repositories that are keys of the contributor set index.
IndexedRepos == {repo_collaborators[i].repo : i \in 1..Len(repo_collaborators)}
Contributors(repo) == ContributorsOf(repo_collaborators, repo)
\* The repositories whose contributor set holds both a and b.
SharedRepos(a, b) == {r \in IndexedRepos : a \in Contributors(r) /\ b \in Contributors(r)}
\* The repositories whose contributor set holds a.
ReposOfLogin(a) == {r \in IndexedRepos : a \in Contributors(r)}
\* The published edges that join a and b, in either orientation.
EdgesBetween(a, b) ==
    {i \in 1..Len(collaboration_edges) :
        {collaboration_edges[i].source, collaboration_edges[i].target} = {a, b}}
Occurrences(x, l) == Cardinality({i \in 1..Len(l) : l[i] = x})

\* C1: every published edge has weight = len(repos), and each repository of
\* its repos list has both the source and the target in its contributor set.
WeightConsistency ==
    EdgesPublished =>
        \A i \in 1..Len(collaboration_edges) :
            LET e == collaboration_edges[i]
            IN /\ e.weight = Len(e.repos)
               /\ \A j \in 1..Len(e.repos) :
                     /\ e.source \in Contributors(e.repos[j])
                     /\ e.target \in Contributors(e.repos[j])

\* An edge over two repositories has been published.
WeightConsistencyWitness ==
    /\ EdgesPublished
    /\ \E i \in 1..Len(collaboration_edges) : Len(collaboration_edges[i].repos) >= 2

\* C2: each unordered pair of distinct logins has exactly one published edge
\* when the two share a repository and none otherwise; the weight is the
\* number of shared repositories and repos lists each of them exactly once.
OneEdgePerSharingPair ==
    EdgesPublished =>
        \A a, b \in Logins :
            a < b =>
                IF SharedRepos(a, b) = {}
                THEN EdgesBetween(a, b) = {}
                ELSE /\ Cardinality(EdgesBetween(a, b)) = 1
                     /\ \A i \in EdgesBetween(a, b) :
                           /\ collaboration_edges[i].weight = Cardinality(SharedRepos(a, b))
                           /\ \A r \in SharedRepos(a, b) :
                                 Occurrences(r, collaboration_edges[i].repos) = 1

\* Published: a pair sharing two repositories, a pair sharing one, and two
\* indexed logins sharing none.
OneEdgePerSharingPairWitness ==
    /\ EdgesPublished
    /\ \E a, b \in Logins : a < b /\ Cardinality(SharedRepos(a, b)) = 2
    /\ \E a, b \in Logins : a < b /\ Cardinality(SharedRepos(a, b)) = 1
    /\ \E a, b \in Logins :
          a < b /\ SharedRepos(a, b) = {} /\ ReposOfLogin(a) # {} /\ ReposOfLogin(b) # {}

\* C3: every published edge has source < target, and no two published edges
\* join the same unordered pair.
CanonicalEdges ==
    EdgesPublished =>
        /\ \A i \in 1..Len(collaboration_edges) :
              collaboration_edges[i].source < collaboration_edges[i].target
        /\ \A i, j \in 1..Len(collaboration_edges) :
              {collaboration_edges[i].source, collaboration_edges[i].target}
                  = {collaboration_edges[j].source, collaboration_edges[j].target}
              => i = j

\* Published after the loops met a pair with user1 > user2 first (user1 is
\* the first key of user_collaborations, user2 the second) and a pair over
\* two repositories.
CanonicalEdgesWitness ==
    /\ EdgesPublished
    /\ Len(user_collaborations) >= 2
    /\ user_collaborations[1].user > user_collaborations[2].user
    /\ \E i \in 1..Len(collaboration_edges) : collaboration_edges[i].weight >= 2

HubLogins == {cross_repo_list[i].user : i \in 1..Len(cross_repo_list)}
HasCollaborator(a) == UserIndex(user_collaborations, a) # 0

\* C4 as claimed: a login is in the hub list iff it is in the contributor set
\* of more than one repository, collaborators or not.
HubIffMultiRepo ==
    HubsDecided =>
        \A a \in Logins : a \in HubLogins <=> Cardinality(ReposOfLogin(a)) > 1

\* C4 as amended: a login is in the hub list iff it is in the contributor set
\* of more than one repository and has at least one collaborator.
HubIffMultiRepoCollaborator ==
    HubsDecided =>
        \A a \in Logins :
            a \in HubLogins <=> (Cardinality(ReposOfLogin(a)) > 1 /\ HasCollaborator(a))

\* The hub list holds a login of two repositories while a login that has a
\* collaborator but one repository is left out.
HubIffMultiRepoCollaboratorWitness ==
    /\ HubsDecided
    /\ HubLogins # {}
    /\ \E a \in Logins : HasCollaborator(a) /\ Cardinality(ReposOfLogin(a)) = 1
                          /\ a \notin HubLogins

\* The lexicographic order of the (source, target) pairs.
PairBefore(e, f) ==
    e.source < f.source \/ (e.source = f.source /\ e.target < f.target)

\* C5 as claimed: the edge list is sorted by weight descending, edges of
\* equal weight in canonical pair order.
EdgesSortedCanonically ==
    EdgesPublished =>
        \A i, j \in 1..Len(collaboration_edges) :
            i < j =>
                LET e == collaboration_edges[i]
                    f == collaboration_edges[j]
                IN e.weight > f.weight \/ (e.weight = f.weight /\ PairBefore(e, f))

\* C5 as amended: the edge list is sorted by weight descending, edges of
\* equal weight in the order in which their pairs were first met.
EdgesSortedStably ==
    EdgesPublished =>
        \A i, j \in 1..Len(collaboration_edges) :
            i < j =>
                LET e == collaboration_edges[i]
                    f == collaboration_edges[j]
                IN \/ e.weight > f.weight
                   \/ /\ e.weight = f.weight
                      /\ KeyIndex(collaboration_repos, <<e.source, e.target>>)
                            < KeyIndex(collaboration_repos, <<f.source, f.target>>)

\* Published: a heavier edge that was met after a lighter one, and two edges
\* of equal weight.
EdgesSortedStablyWitness ==
    /\ EdgesPublished
    /\ \E i, j \in 1..Len(collaboration_repos) :
          i < j /\ Len(collaboration_repos[i].repos) < Len(collaboration_repos[j].repos)
    /\ \E i, j \in 1..Len(collaboration_edges) :
          i < j /\ collaboration_edges[i].weight = collaboration_edges[j].weight

\* A step that reads one record.
ReadsRecord == nread' = nread + 1

\* The record names no actor: no reporter / author / actor login and, for
\* an issue, no assignee login.
ActorAbsent(r) == ~HasLogin(r.actor) /\ ~HasLogin(r.assignee)

\* C6: reading a record (no metadata entry) whose actor is absent adds no
\* (repository, login) pair and does not raise.
AbsentActorTolerated ==
    [][(ReadsRecord /\ ~rec'.metadata /\ ActorAbsent(rec'))
         => (repo_collaborators' = repo_collaborators /\ pc' # "raised")]_vars

\* C7: reading the leading metadata entry of a list adds no (repository,
\* login) pair.
MetadataSkipped ==
    [][(ReadsRecord /\ rec'.metadata)
         => repo_collaborators' = repo_collaborators]_vars

\* C8: every repository profile has 0 <= actual <= potential, a density
\* between 0 and 1 over a nonzero denominator, and density 0 when the
\* repository has at most one contributor.
DensityBounds ==
    ReposPublished =>
        \A i \in 1..Len(repo_analysis) :
            LET a == repo_analysis[i]
            IN /\ 0 <= a.actual_collaborations
               /\ a.actual_collaborations <= a.potential_collaborations
               /\ a.collaboration_density.den > 0
               /\ 0 <= a.collaboration_density.num
               /\ a.collaboration_density.num <= a.collaboration_density.den
               /\ a.contributor_count <= 1 => a.collaboration_density.num = 0

\* Published: a repository with one contributor beside one with three, and
\* edges that do not span every repository.
DensityBoundsWitness ==
    /\ ReposPublished
    /\ \E i \in 1..Len(repo_analysis) : repo_analysis[i].contributor_count = 1
    /\ \E i \in 1..Len(repo_analysis) : repo_analysis[i].contributor_count = 3
    /\ Len(collaboration_edges) = 3

\* The collaborators the published profile of a lists, {} without profile.
ProfileCollaborators(a) ==
    UNION {user_metrics[i].collaborators :
              i \in {k \in 1..Len(user_metrics) : user_metrics[k].user = a}}

\* C9: the profile of a lists exactly the logins joined to a by a published
\* edge, collaborator_count is their number, and the relation is symmetric.
CollaboratorsAreNeighbours ==
    UsersPublished =>
        /\ \A i \in 1..Len(user_metrics) :
              LET m == user_metrics[i]
              IN /\ m.collaborators =
                       {b \in Logins : EdgesBetween(m.user, b) # {}}
                 /\ m.collaborator_count = Cardinality(m.collaborators)
        /\ \A a, b \in Logins :
              b \in ProfileCollaborators(a) <=> a \in ProfileCollaborators(b)

\* Published: a profile with two collaborators and one with a single one.
CollaboratorsAreNeighboursWitness ==
    /\ UsersPublished
    /\ \E i \in 1..Len(user_metrics) : user_metrics[i].collaborator_count = 2
    /\ \E i \in 1..Len(user_metrics) : user_metrics[i].collaborator_count = 1

\* C10: the logins of a record (no metadata entry) without repository
\* identifier are in the contributor set of "unknown" once the record is
\* read, and any two logins of that set are joined by a published edge that
\* lists "unknown".
SentinelBucket ==
    /\ (rec.kind # "none" /\ ~rec.metadata /\ rec.repo_name = RepoAbsent)
          => NamedLogins(rec) \subseteq Contributors("unknown")
    /\ EdgesPublished =>
          \A a, b \in Contributors("unknown") :
              a # b => \E i \in EdgesBetween(a, b) :
                          InList("unknown", collaboration_edges[i].repos)

\* The network summary, once computed.
Summary == network_stats[1]

\* The run is over and no list had an element.
EmptyRun == pc = "done" /\ nread = 0

\* A step that leaves a list no element of which was read.
PassesEmptyStream == pc = "collect" /\ head /\ nread' = nread

\* C11: no run that read no element raises; when such a run is over, the
\* edge list, the user profile list and the repository profile list are
\* empty, no hub artifact is saved and the six fields of the network
\* summary are 0.  Passing a list without elements neither raises nor
\* changes the contributor index, which the other lists alone fill.
EmptyInputDegrades ==
    /\ [](nread = 0 => pc # "raised")
    /\ [](EmptyRun =>
            /\ collaboration_edges = <<>>
            /\ user_metrics = <<>>
            /\ repo_analysis = <<>>
            /\ cross_repo_list = <<>>
            /\ ~Published("cross_repository_hubs.json")
            /\ generated_files = <<"collaboration_edges.json",
                                   "user_collaboration_metrics.json",
                                   "repository_collaboration_analysis.json",
                                   "network_statistics.json">>
            /\ Summary.total_users = 0
            /\ Summary.total_collaborations = 0
            /\ Summary.total_repositories = 0
            /\ Summary.cross_repo_contributors = 0
            /\ Summary.avg_collaborators_per_user = Zero
            /\ Summary.avg_contributors_per_repo = Zero)
    /\ [][PassesEmptyStream =>
             (repo_collaborators' = repo_collaborators /\ pc' # "raised")]_vars

\* A run over four lists without elements has saved its four artifacts.
EmptyInputDegradesWitness ==
    EmptyRun /\ Len(generated_files) = 4 /\ Len(network_stats) = 1

\* What the set of named pairs alone determines, whatever the order and
\* the multiplicity in which the elements of the four lists were read.
SeenRepos == {p[1] : p \in seen}
SeenIn(repo) == {p[2] : p \in {q \in seen : q[1] = repo}}
\* The repositories of each login.
SeenReposOf == [a \in Logins |-> {p[1] : p \in {q \in seen : q[2] = a}}]
\* The pairs of logins that share a repository, lower login first.
SeenPairs(reposOf) ==
    {q \in Logins \X Logins : q[1] < q[2] /\ reposOf[q[1]] \cap reposOf[q[2]] # {}}
SeenEdges(reposOf, pairs) ==
    {<<q[1], q[2], Cardinality(reposOf[q[1]] \cap reposOf[q[2]])>> : q \in pairs}
SeenCollaborators(pairs, a) ==
    {q[2] : q \in {r \in pairs : r[1] = a}} \cup {q[1] : q \in {r \in pairs : r[2] = a}}
SeenUsers(pairs) == {q[1] : q \in pairs} \cup {q[2] : q \in pairs}
SeenUserProfiles(reposOf, pairs) ==
    {<<a, Cardinality(SeenCollaborators(pairs, a)), Cardinality(reposOf[a])>> :
        a \in SeenUsers(pairs)}
SeenRepoProfile(repo) ==
    LET n == Cardinality(SeenIn(repo))
        potential == (n * (n - 1)) \div 2
    IN <<repo, n, potential, potential,
         IF potential > 0 THEN Fraction(potential, potential) ELSE Zero>>
SeenRepoProfiles == {SeenRepoProfile(repo) : repo \in SeenRepos}
SeenHubs(reposOf, pairs) ==
    {a \in SeenUsers(pairs) : Cardinality(reposOf[a]) > 1}
SeenSummary(reposOf, pairs) ==
    LET users == Cardinality(SeenUsers(pairs))
        repos == Cardinality(SeenRepos)
    IN [total_users |-> users,
        total_collaborations |-> Cardinality(pairs),
        total_repositories |-> repos,
        cross_repo_contributors |-> Cardinality(SeenHubs(reposOf, pairs)),
        avg_collaborators_per_user |->
            IF users > 0 THEN Fraction(2 * Cardinality(pairs), users) ELSE Zero,
        avg_contributors_per_repo |->
            IF repos > 0 THEN Fraction(Cardinality(seen), repos) ELSE Zero]

\* The published results, order set aside.
EdgeSet ==
    {<<collaboration_edges[i].source, collaboration_edges[i].target,
       collaboration_edges[i].weight>> : i \in 1..Len(collaboration_edges)}
UserProfileSet ==
    {<<user_metrics[i].user, user_metrics[i].collaborator_count,
       user_metrics[i].repositories_contributed>> : i \in 1..Len(user_metrics)}
RepoProfileSet ==
    {<<repo_analysis[i].repo, repo_analysis[i].contributor_count,
       repo_analysis[i].potential_collaborations,
       repo_analysis[i].actual_collaborations,
       repo_analysis[i].collaboration_density>> : i \in 1..Len(repo_analysis)}

\* C12: the results of a finished run are a function of the set of pairs
\* its elements name, so two runs over the same elements, in any order
\* and with any repetition, publish the same edges with the same weights,
\* the same per-user and per-repository figures, the same hubs and the
\* same network summary.
ResultsDeterminedByRecords ==
    pc = "done" =>
        LET reposOf == SeenReposOf
            pairs == SeenPairs(reposOf)
        IN /\ EdgeSet = SeenEdges(reposOf, pairs)
           /\ Len(collaboration_edges) = Cardinality(pairs)
           /\ UserProfileSet = SeenUserProfiles(reposOf, pairs)
           /\ Len(user_metrics) = Cardinality(SeenUsers(pairs))
           /\ RepoProfileSet = SeenRepoProfiles
           /\ Len(repo_analysis) = Cardinality(SeenRepos)
           /\ HubLogins = SeenHubs(reposOf, pairs)
           /\ Summary = SeenSummary(reposOf, pairs)

\* A finished run that read as many elements as the bound allows and
\* published an edge of weight 2 and a hub.
ResultsDeterminedByRecordsWitness ==
    /\ pc = "done"
    /\ nread = MaxRecords
    /\ \E i \in 1..Len(collaboration_edges) : collaboration_edges[i].weight = 2
    /\ cross_repo_list # <<>>

\* The four lists are folded: the collecting loops are over without a fault.
Folded == pc \in {"edges", "metrics", "done"}

\* The logins the records read name for repo.
NamedIn(repo) == {p[2] : p \in {q \in named : q[1] = repo}}

\* C13: once the four lists are folded, the repositories of the index are
\* those the records read name, and the contributor set of each is exactly
\* the set of logins that occur for it as reporter, assignee, author or
\* actor of a record; a leading metadata entry is no record.
ContributorsAreNamedLogins ==
    Folded =>
        /\ IndexedRepos = {p[1] : p \in named}
        /\ \A repo \in IndexedRepos : Contributors(repo) = NamedIn(repo)

\* The same with the leading metadata entry counted as a record.
ContributorsAreSeenLogins ==
    Folded =>
        /\ IndexedRepos = SeenRepos
        /\ \A repo \in IndexedRepos : Contributors(repo) = SeenIn(repo)

\* The buckets a repository profile can stand for.
Buckets == Repos \cup {"unknown"}
\* The logins that are an endpoint of a published edge.
EdgeEndpoints ==
    {collaboration_edges[i].source : i \in 1..Len(collaboration_edges)}
        \cup {collaboration_edges[i].target : i \in 1..Len(collaboration_edges)}
UserProfilesOf(a) == {i \in 1..Len(user_metrics) : user_metrics[i].user = a}
RepoProfilesOf(repo) == {i \in 1..Len(repo_analysis) : repo_analysis[i].repo = repo}

\* C14: the user profile list has one profile for each endpoint of a
\* published edge and none for any other login; the repository profile
\* list has one profile for each repository of the index and no other, and
\* the profile of a repository with one contributor has potential 0,
\* actual 0 and density 0.
ProfilesCoverGraph ==
    pc = "done" =>
        /\ \A a \in Logins :
              Cardinality(UserProfilesOf(a)) = IF a \in EdgeEndpoints THEN 1 ELSE 0
        /\ \A repo \in Buckets :
              Cardinality(RepoProfilesOf(repo)) = IF repo \in IndexedRepos THEN 1 ELSE 0
        /\ Len(user_metrics) = Cardinality(EdgeEndpoints)
        /\ Len(repo_analysis) = Cardinality(IndexedRepos)
        /\ \A i \in 1..Len(repo_analysis) :
              repo_analysis[i].contributor_count = 1 =>
                  /\ repo_analysis[i].potential_collaborations = 0
                  /\ repo_analysis[i].actual_collaborations = 0
                  /\ repo_analysis[i].collaboration_density = Zero

\* Finished: a repository whose sole contributor is on no edge, beside a
\* repository with an edge.
ProfilesCoverGraphWitness ==
    /\ pc = "done"
    /\ collaboration_edges # <<>>
    /\ \E repo \in IndexedRepos :
          /\ Cardinality(Contributors(repo)) = 1
          /\ Contributors(repo) \cap EdgeEndpoints = {}

\* C15: repositories_contributed of a user profile is the number of
\* repositories of the index whose contributor set holds the login,
\* those of which it is the sole contributor included.
RepositoriesContributedCountsAll ==
    UsersPublished =>
        \A i \in 1..Len(user_metrics) :
            user_metrics[i].repositories_contributed =
                Cardinality(ReposOfLogin(user_metrics[i].user))

\* Published: a profile of a login that is the sole contributor of one of
\* its repositories.
RepositoriesContributedCountsAllWitness ==
    /\ UsersPublished
    /\ \E i \in 1..Len(user_metrics) :
          /\ user_metrics[i].repositories_contributed >= 2
          /\ \E repo \in IndexedRepos : Contributors(repo) = {user_metrics[i].user}

\* The set of the elements of a list.
Elements(l) == {l[i] : i \in 1..Len(l)}

\* C16: a hub entry lists exactly the repositories whose contributor set
\* holds its login, each once; repo_count is the length of that list and
\* exceeds 1; total_collaborators is the collaborator_count of the login's
\* user profile; the hub list is ordered by non-increasing repo_count.
HubEntriesComplete ==
    HubsDecided =>
        /\ \A i \in 1..Len(cross_repo_list) :
              LET h == cross_repo_list[i]
              IN /\ Elements(h.repositories) = ReposOfLogin(h.user)
                 /\ Len(h.repositories) = Cardinality(ReposOfLogin(h.user))
                 /\ h.repo_count = Len(h.repositories)
                 /\ h.repo_count > 1
                 /\ UserProfilesOf(h.user) # {}
                 /\ \A k \in UserProfilesOf(h.user) :
                       h.total_collaborators = user_metrics[k].collaborator_count
        /\ \A i, j \in 1..Len(cross_repo_list) :
              i < j => cross_repo_list[i].repo_count >= cross_repo_list[j].repo_count

\* Decided: a hub of three repositories listed before a hub of two, their
\* logins having entered user_collaborations in the opposite order.
HubEntriesCompleteWitness ==
    /\ HubsDecided
    /\ Len(cross_repo_list) = 2
    /\ cross_repo_list[1].repo_count = 3
    /\ cross_repo_list[2].repo_count = 2
    /\ UserIndex(user_collaborations, cross_repo_list[2].user)
          < UserIndex(user_collaborations, cross_repo_list[1].user)

\* C17: in every repository profile actual_collaborations and
\* potential_collaborations both equal n(n-1)/2 for n contributors, and
\* the density is 0 when n <= 1 and 1 when n >= 2.
ActualEqualsPotential ==
    ReposPublished =>
        \A i \in 1..Len(repo_analysis) :
            LET a == repo_analysis[i]
                n == Cardinality(Contributors(a.repo))
            IN /\ a.contributor_count = n
               /\ a.potential_collaborations = (n * (n - 1)) \div 2
               /\ a.actual_collaborations = a.potential_collaborations
               /\ (n <= 1) => a.collaboration_density = Zero
               /\ (n >= 2) => /\ a.collaboration_density.den > 0
                              /\ a.collaboration_density.num
                                    = a.collaboration_density.den

\* Published: a repository of two contributors who share a second
\* repository, so that their edge lists two repositories.
ActualEqualsPotentialWitness ==
    /\ ReposPublished
    /\ \E i, j \in 1..Len(repo_analysis) :
          /\ i # j
          /\ repo_analysis[i].actual_collaborations = 1
          /\ repo_analysis[j].actual_collaborations >= 1
    /\ \E i \in 1..Len(collaboration_edges) : collaboration_edges[i].weight >= 2

\* l is an initial segment of m.
IsPrefix(l, m) == Len(l) <= Len(m) /\ \A i \in 1..Len(l) : l[i] = m[i]
ProcessorNames == {Processors[i] : i \in 1..Len(Processors)}
ProcessorFailed == failed \in ProcessorNames

====
